---------------------------- MODULE Spec2Model ----------------------------
(***************************************************************************)
(* Flow-field pathfinding of geowartry: the cell field (game/cell.rs), the *)
(* distance and direction solvers, the events that drive them and the      *)
(* systems of one frame of the Update schedule (cell.rs, unit_move.rs,     *)
(* input_event.rs).                                                        *)
(*                                                                         *)
(* f32 distances are modelled exactly: a finite distance is an integer     *)
(* count of 2^-23 (one ulp at 1.0), and every addition is rounded to 24    *)
(* significant bits, ties to even, as the hardware does.  Directions are   *)
(* fixed-point vectors with DIR_SCALE units per 1.0.                       *)
(***************************************************************************)
EXTENDS Integers, Sequences, FiniteSets, TLC

VARIABLES
    global_state,   \* State<GlobalState>: "InGame" or "Menu"
    field,          \* CellField.0: coord -> [state, debug_distance, debug_direction]
    colliders,      \* coord -> number of RigidBody::Fixed colliders spawned on the cell
    force,          \* ExternalForce.force of the unit, a Vec2
    target,         \* DebugTargetCell.0: NoTarget or a coordinate
    ev_update_cell, \* Events<UpdateCellEvent>: [buf, old]
    ev_dest,        \* Events<DebugSetUnitDestEvent>: [buf, old]
    ev_redraw,      \* Events<DebugRedrawEvent>: [buf, old]
    rd,             \* per system, per event type: number of stored events already read
    done,           \* the systems that have run in the current frame
    input,          \* keyboard, mouse and cursor of the current frame
    budget,         \* frames with user input still allowed
    panicked,       \* a system has panicked: the app is gone
    hist            \* history of the frame, read by the properties only

vars == <<global_state, field, colliders, force, target, ev_update_cell, ev_dest, ev_redraw, rd, done,
          input, budget, panicked, hist>>

----------------------------------------------------------------------------
(* Bounds of the model *)

\* Game::BOARD_COLUMN, cut down from 15
BOARD_COLUMN == 3

\* Game::BOARD_ROW, cut down from 10
BOARD_ROW == 3

\* obstacles in a layout the solver specification starts from
MaxObstacles == 2

\* frames of one session in which the user presses a key or clicks
MaxInputFrames == 1

\* cells the cursor visits, taken from the front of CursorOrder
NumCursorCells == 2

----------------------------------------------------------------------------
(* f32 *)

\* 1.0f32 in units of 2^-23
F32_ONE == 8388608

\* 2f32.sqrt() = 0x3FB504F3 in units of 2^-23
F32_SQRT2 == 11863283

\* f32::MAX, the "not reached" sentinel; above every distance of the grid
F32_MAX == 2147483647

\* f32::NAN, the distance of a cell of a fresh field
F32_NAN == -1

\* f32::EPSILON = 2^-23
F32_EPSILON == 1

\* 2^24: below it every count of 2^-23 is a representable f32
F32_EXACT == 16777216

RoundToQuantum(n, q) ==
    LET lo == (n \div q) * q
        rem == n - lo
    IN  IF 2 * rem < q THEN lo
        ELSE IF 2 * rem > q THEN lo + q
        ELSE IF (lo \div q) % 2 = 0 THEN lo ELSE lo + q

\* round-to-nearest-even of a non-negative real given in units of 2^-23
F32Round(n) ==
    IF n < F32_EXACT THEN n
    ELSE IF n < 2 * F32_EXACT THEN RoundToQuantum(n, 2)
    ELSE IF n < 4 * F32_EXACT THEN RoundToQuantum(n, 4)
    ELSE IF n < 8 * F32_EXACT THEN RoundToQuantum(n, 8)
    ELSE RoundToQuantum(n, 16)

F32Add(a, b) == F32Round(a + b)

\* a step cost that ignores the sqrt 2 of a diagonal: what C1 rules out
StepCostUniform(dx, dy) == F32_ONE

\* ((dx*dx + dy*dy) as f32).sqrt() for dx, dy in -1..1, not both 0
StepCost(dx, dy) == IF dx * dy # 0 THEN F32_SQRT2 ELSE F32_ONE

----------------------------------------------------------------------------
(* Cell and CellField *)

CellState == {"Empty", "Water", "Iron", "Rock", "Building", "Mine"}

DIR_SCALE == 1000

\* Vec2::NAN
VEC2_NAN == [nan |-> TRUE, x |-> 0, y |-> 0]

Vec2(x, y) == [nan |-> FALSE, x |-> x, y |-> y]

min_col == 0
max_col == BOARD_COLUMN - 1
min_row == 0
max_row == BOARD_ROW - 1

Coords == (min_col..max_col) \X (min_row..max_row)

\* the bounds test of get_cell / get_cell_mut: outside it they panic
InField(coord) ==
    /\ ~(coord[1] < min_col \/ coord[1] > max_col)
    /\ ~(coord[2] < min_row \/ coord[2] > max_row)

\* Mine taken for an obstacle: what C18 rules out
is_passable_without_mine(state) == state = "Empty"

is_passable(state) == state \in {"Empty", "Mine"}

\* get_cell and get_cell_mut: the cell at the index, or a panic off the field
get_cell(f, cell_coord) ==
    IF InField(cell_coord) THEN [panic |-> FALSE, cell |-> f[cell_coord]]
    ELSE [panic |-> TRUE]

\* CellField::init
FieldInit ==
    [coord \in Coords |->
        [coord |-> coord, state |-> "Empty", debug_distance |-> F32_NAN,
         debug_direction |-> VEC2_NAN]]

\* the neighbour enumeration order shared by the solver and the field
dc == <<0, 1, 0, -1, -1, -1, 1, 1>>
dr == <<1, 0, -1, 0, 1, -1, 1, -1>>

Passable(f, coord) == is_passable(f[coord].state)

\* the loop with a diagonal dropped as soon as one of its side cells is
\* impassable: what C17 rules out
ReachableAtEitherSide(f, coord, i) ==
    LET c == coord[1]
        r == coord[2]
        nc == c + dc[i]
        nr == r + dr[i]
    IN  /\ ~(nc < min_col \/ nc > max_col \/ nr < min_row \/ nr > max_row)
        /\ Passable(f, <<nc, nr>>)
        /\ ~( /\ (nc - c) * (nr - r) # 0
              /\ (~Passable(f, <<nc, r>>) \/ ~Passable(f, <<c, nr>>)) )

\* one iteration of the loop of get_reachable_adjacent_cells: is neighbour i kept
ReachableAt(f, coord, i) ==
    LET c == coord[1]
        r == coord[2]
        nc == c + dc[i]
        nr == r + dr[i]
    IN  /\ ~(nc < min_col \/ nc > max_col \/ nr < min_row \/ nr > max_row)
        /\ Passable(f, <<nc, nr>>)
        /\ ~( /\ (nc - c) * (nr - r) # 0
              /\ ~Passable(f, <<nc, r>>)
              /\ ~Passable(f, <<c, nr>>) )

\* get_reachable_adjacent_cells: the coordinates, in enumeration order
get_reachable_adjacent_cells(f, coord) ==
    LET idx == SelectSeq(<<1, 2, 3, 4, 5, 6, 7, 8>>,
                         LAMBDA i : ReachableAt(f, coord, i))
    IN  [k \in 1..Len(idx) |-> <<coord[1] + dc[idx[k]], coord[2] + dr[idx[k]]>>]

----------------------------------------------------------------------------
(* debug_calculate_distance *)

\* a solver that starts from the distances of the last solve: what C15 rules out
ResetDistancesSkipped(f) == f

\* the reset loop: every cell's distance becomes f32::MAX
ResetDistances(f) ==
    [coord \in Coords |-> [f[coord] EXCEPT !.debug_distance = F32_MAX]]

\* the inner-loop tests without the diagonal rule: what C2 rules out
SolverStepAllowedCuttingCorners(f, x, y, i) ==
    LET nx == x + dc[i]
        ny == y + dr[i]
    IN  /\ ~(nx < 0 \/ nx >= BOARD_COLUMN \/ ny < 0 \/ ny >= BOARD_ROW)
        /\ Passable(f, <<nx, ny>>)

\* the tests of the inner loop of the solver: may (x, y) relax neighbour i
SolverStepAllowed(f, x, y, i) ==
    LET nx == x + dc[i]
        ny == y + dr[i]
    IN  /\ ~(nx < 0 \/ nx >= BOARD_COLUMN \/ ny < 0 \/ ny >= BOARD_ROW)
        /\ Passable(f, <<nx, ny>>)
        /\ ~( /\ dc[i] * dr[i] # 0
              /\ ~Passable(f, <<x, ny>>)
              /\ ~Passable(f, <<nx, y>>) )

\* the loop body pushing a lowered neighbour a second time, with nothing
\* lowered by the second push: what C25 rules out
RECURSIVE RelaxFromPushingTwice(_, _, _, _, _, _)
RelaxFromPushingTwice(f, q, x, y, distance, i) ==
    IF i > 8 THEN <<f, q>>
    ELSE LET nx == x + dc[i]
             ny == y + dr[i]
             new_distance == F32Add(distance, StepCost(dc[i], dr[i]))
         IN  IF /\ SolverStepAllowed(f, x, y, i)
                /\ new_distance < f[<<nx, ny>>].debug_distance
             THEN RelaxFromPushingTwice(
                     [f EXCEPT ![<<nx, ny>>].debug_distance = new_distance],
                     Append(Append(q, <<nx, ny, new_distance>>),
                            <<nx, ny, new_distance>>), x, y, distance, i + 1)
             ELSE RelaxFromPushingTwice(f, q, x, y, distance, i + 1)

\* the body of "for i in 0..8" from neighbour i on: the field and the queue after it
RECURSIVE RelaxFrom(_, _, _, _, _, _)
RelaxFrom(f, q, x, y, distance, i) ==
    IF i > 8 THEN <<f, q>>
    ELSE LET nx == x + dc[i]
             ny == y + dr[i]
             new_distance == F32Add(distance, StepCost(dc[i], dr[i]))
         IN  IF /\ SolverStepAllowed(f, x, y, i)
                /\ new_distance < f[<<nx, ny>>].debug_distance
             THEN RelaxFrom(
                     [f EXCEPT ![<<nx, ny>>].debug_distance = new_distance],
                     Append(q, <<nx, ny, new_distance>>), x, y, distance, i + 1)
             ELSE RelaxFrom(f, q, x, y, distance, i + 1)

\* "while !q.is_empty()": pop the front, relax its neighbours
RECURSIVE DrainQueue(_, _)
DrainQueue(f, q) ==
    IF q = <<>> THEN f
    ELSE LET head == Head(q)
             after == RelaxFrom(f, Tail(q), head[1], head[2], head[3], 1)
         IN  DrainQueue(after[1], after[2])

\* a solve that forgets "debug_distance = 0.0" of the destination: what C11 rules out
DistanceSolveUnseeded(f, dest) ==
    DrainQueue(ResetDistances(f), <<<<dest[1], dest[2], 0>>>>)

\* the solve for an in-field destination
DistanceSolve(f, dest) ==
    LET reset == ResetDistances(f)
        start == [reset EXCEPT ![dest].debug_distance = 0]
    IN  DrainQueue(start, <<<<dest[1], dest[2], 0>>>>)


----------------------------------------------------------------------------
(* Vec2 *)

RoundDiv(a, b) ==
    IF a >= 0 THEN (2 * a + b) \div (2 * b) ELSE -((2 * (-a) + b) \div (2 * b))

RECURSIVE ISqrtBetween(_, _, _)
ISqrtBetween(n, lo, hi) ==
    IF lo >= hi THEN lo
    ELSE LET mid == (lo + hi + 1) \div 2
         IN  IF mid * mid <= n THEN ISqrtBetween(n, mid, hi)
             ELSE ISqrtBetween(n, lo, mid - 1)

\* Vec2::length of a fixed-point vector
Vec2Length(x, y) == ISqrtBetween(x * x + y * y, 0, 16 * DIR_SCALE)

\* a direction stored without .normalize(): what C12 rules out
Vec2NormalizeSkipped(v) == v

\* Vec2::normalize: self * length.recip(); the zero vector (and NaN) gives NaN
Vec2Normalize(v) ==
    IF v.nan THEN VEC2_NAN
    ELSE LET len == Vec2Length(v.x, v.y)
         IN  IF len = 0 THEN VEC2_NAN
             ELSE Vec2(RoundDiv(v.x * DIR_SCALE, len), RoundDiv(v.y * DIR_SCALE, len))

Vec2Add(a, b) ==
    IF a.nan \/ b.nan THEN VEC2_NAN ELSE Vec2(a.x + b.x, a.y + b.y)

\* a - b
Vec2Sub(a, b) ==
    IF a.nan \/ b.nan THEN VEC2_NAN ELSE Vec2(a.x - b.x, a.y - b.y)

\* v * k for a finite k
Vec2Scale(v, k) ==
    IF v.nan THEN VEC2_NAN ELSE Vec2(v.x * k, v.y * k)

RECURSIVE Vec2Sum(_)
Vec2Sum(vs) == IF vs = <<>> THEN Vec2(0, 0) ELSE Vec2Add(Head(vs), Vec2Sum(Tail(vs)))

\* the vector from cell `from` to cell `to`, as Vec2 { x: .. as f32, y: .. as f32 }
OffsetVec(from, to) ==
    Vec2((to[1] - from[1]) * DIR_SCALE, (to[2] - from[2]) * DIR_SCALE)

----------------------------------------------------------------------------
(* debug_calculate_direction *)

\* the reachable neighbours whose distance is not f32::MAX (NaN != MAX is true)
Candidates(f, coord) ==
    SelectSeq(get_reachable_adjacent_cells(f, coord),
              LAMBDA n : f[n].debug_distance # F32_MAX)

\* fold(f32::MAX, |accu, x| accu.min(x.debug_distance)); f32::min skips NaN
RECURSIVE MinAdjDist(_, _, _)
MinAdjDist(f, cands, accu) ==
    IF cands = <<>> THEN accu
    ELSE LET d == f[Head(cands)].debug_distance
         IN  MinAdjDist(f, Tail(cands),
                        IF d # F32_NAN /\ d < accu THEN d ELSE accu)

\* the branch "len() < 8" without its break: the last candidate within EPSILON
\* of the minimum wins. What C23 rules out
RECURSIVE NearestVecsLastTie(_, _, _, _)
NearestVecsLastTie(f, coord, cands, min_adj_dist) ==
    IF cands = <<>> THEN <<>>
    ELSE LET tar == Head(cands)
             d == f[tar].debug_distance
             later == NearestVecsLastTie(f, coord, Tail(cands), min_adj_dist)
         IN  IF later # <<>> THEN later
             ELSE IF /\ Passable(f, tar)
                     /\ d # F32_NAN
                     /\ d - min_adj_dist <= F32_EPSILON
             THEN <<OffsetVec(coord, tar)>>
             ELSE <<>>

\* the branch "len() < 8": the first candidate within EPSILON of the minimum
RECURSIVE NearestVecs(_, _, _, _)
NearestVecs(f, coord, cands, min_adj_dist) ==
    IF cands = <<>> THEN <<>>
    ELSE LET tar == Head(cands)
             d == f[tar].debug_distance
         IN  IF \/ ~Passable(f, tar)
                \/ /\ (tar[1] - coord[1]) * (tar[2] - coord[2]) # 0
                   /\ ~Passable(f, <<tar[1], coord[2]>>)
                   /\ ~Passable(f, <<coord[1], tar[2]>>)
             THEN NearestVecs(f, coord, Tail(cands), min_adj_dist)
             ELSE IF d # F32_NAN /\ d - min_adj_dist <= F32_EPSILON
             THEN <<OffsetVec(coord, tar)>>
             ELSE NearestVecs(f, coord, Tail(cands), min_adj_dist)

\* normalize(offset) * (min_adj_dist / ac.debug_distance)
WeightedVec(f, coord, ac, min_adj_dist) ==
    LET d == f[ac].debug_distance
        unit == Vec2Normalize(OffsetVec(coord, ac))
    IN  IF d = F32_NAN \/ d = 0 THEN VEC2_NAN
        ELSE LET w == RoundDiv(min_adj_dist, RoundDiv(d, DIR_SCALE))
             IN  Vec2(RoundDiv(unit.x * w, DIR_SCALE), RoundDiv(unit.y * w, DIR_SCALE))

\* the branch of 8 candidates: stop at the destination, else collect weighted vectors
RECURSIVE BlendVecs(_, _, _, _, _, _)
BlendVecs(f, coord, dest, cands, min_adj_dist, acc) ==
    IF cands = <<>> THEN acc
    ELSE IF Head(cands) = dest THEN <<OffsetVec(coord, Head(cands))>>
    ELSE BlendVecs(f, coord, dest, Tail(cands), min_adj_dist,
                   Append(acc, WeightedVec(f, coord, Head(cands), min_adj_dist)))

\* a direction pass that skips impassable and destination cells and leaves what
\* they held: what C13 rules out
DirectionOfKeepingOld(f, coord, dest) ==
    IF ~Passable(f, coord) \/ coord = dest THEN f[coord].debug_direction
    ELSE LET cands == Candidates(f, coord)
             min_adj_dist == MinAdjDist(f, cands, F32_MAX)
             to_adj_vecs ==
                 IF Len(cands) < 8
                 THEN NearestVecs(f, coord, cands, min_adj_dist)
                 ELSE BlendVecs(f, coord, dest, cands, min_adj_dist, <<>>)
         IN  Vec2Normalize(Vec2Sum(to_adj_vecs))

\* a direction pass that blends the new direction with the one the cell held:
\* what C14 rules out
DirectionOfBlendedWithOld(f, coord, dest) ==
    IF ~Passable(f, coord) \/ coord = dest THEN VEC2_NAN
    ELSE LET cands == Candidates(f, coord)
             min_adj_dist == MinAdjDist(f, cands, F32_MAX)
             to_adj_vecs ==
                 IF Len(cands) < 8
                 THEN NearestVecs(f, coord, cands, min_adj_dist)
                 ELSE BlendVecs(f, coord, dest, cands, min_adj_dist, <<>>)
             new == Vec2Normalize(Vec2Sum(to_adj_vecs))
             old == f[coord].debug_direction
         IN  IF old.nan \/ new.nan THEN new ELSE Vec2Normalize(Vec2Add(new, old))

\* the direction stored for one cell
DirectionOf(f, coord, dest) ==
    IF ~Passable(f, coord) \/ coord = dest THEN VEC2_NAN
    ELSE LET cands == Candidates(f, coord)
             min_adj_dist == MinAdjDist(f, cands, F32_MAX)
             to_adj_vecs ==
                 IF Len(cands) < 8
                 THEN NearestVecs(f, coord, cands, min_adj_dist)
                 ELSE BlendVecs(f, coord, dest, cands, min_adj_dist, <<>>)
         IN  Vec2Normalize(Vec2Sum(to_adj_vecs))

\* the two loops over the field: every cell's direction is rewritten
DirectionSolve(f, dest) ==
    [coord \in Coords |->
        [f[coord] EXCEPT !.debug_direction = DirectionOf(f, coord, dest)]]

----------------------------------------------------------------------------
(* Events<T> and EventReader<T> *)

\* the two buffers of Events<T>, oldest first; the first `old` were sent last frame
EvEmpty == [buf |-> <<>>, old |-> 0]

\* EventWriter::send
EvSend(ev, e) == [ev EXCEPT !.buf = Append(@, e)]

\* Events::update, once per frame: what was sent the frame before last is dropped
EvUpdate(ev) ==
    [buf |-> SubSeq(ev.buf, ev.old + 1, Len(ev.buf)), old |-> Len(ev.buf) - ev.old]

\* what a reader that has read n of the stored events still has to read
Unread(ev, n) == SubSeq(ev.buf, n + 1, Len(ev.buf))

\* a reader's cursor after Events::update: events dropped unread are skipped
RdUpdate(n, ev) == IF n > ev.old THEN n - ev.old ELSE 0

Readers == {"update_cell_state", "debug_unit_set_dest", "debug_calculate_distance",
            "debug_calculate_direction", "debug_visual_redraw"}

----------------------------------------------------------------------------
(* The Update schedule of one frame *)

Systems == {"debug_alter_cell_state", "update_cell_state", "debug_calculate_distance",
            "debug_calculate_direction", "debug_visual_redraw",
            "mouse_button_input", "debug_unit_set_dest", "debug_unit_velocity"}

\* the tuple given to .chain() in cell_plugin
ChainOrder == <<"debug_alter_cell_state", "update_cell_state",
                "debug_calculate_distance", "debug_calculate_direction",
                "debug_visual_redraw">>

\* a schedule without .chain(): what C6 rules out
RunsAfterUnchained(sys) == {}

\* the systems that must have run before sys: only .chain() orders anything
RunsAfter(sys) ==
    {ChainOrder[i - 1] : i \in {j \in 2..Len(ChainOrder) : ChainOrder[j] = sys}}

NoPanic == ""

\* run_if(in_state(GlobalState::InGame)), and the order within the frame
Ready(sys) ==
    /\ global_state = "InGame"
    /\ panicked = NoPanic
    /\ sys \notin done
    /\ RunsAfter(sys) \subseteq done

\* DebugTargetCell(None)
NoTarget == <<>>

\* a coordinate transform_to_cell gives for a point right of the grid
OutCell == <<BOARD_COLUMN, 0>>

CursorOrder == <<<<1, 1>>, <<2, 1>>, <<0, 0>>, <<2, 2>>, <<1, 2>>, <<0, 1>>>>

CursorCells == {CursorOrder[i] : i \in 1..NumCursorCells} \cup {OutCell}

\* where the unit can be: a cell of the grid, or off the grid
UnitCells == {CursorOrder[1], OutCell}

IdleInput == [key |-> "None", click |-> FALSE, cursor |-> CursorOrder[1]]

\* a frame's input: which Shift key is held, whether an in-place left click ends
\* in it, and the cell under the cursor; a frame with neither key nor click is idle
Inputs ==
    {IdleInput} \cup
    {i \in [key : {"None", "ShiftLeft", "ShiftRight"}, click : BOOLEAN,
            cursor : CursorCells] : i.key # "None" \/ i.click}

\* the inputs of a frame, given how many input frames are left
NextInputs(left) == IF left = 0 THEN {IdleInput} ELSE Inputs

\* the colliders of a field whose impassable cells were each set once
CollidersOf(f) == [coord \in Coords |-> IF Passable(f, coord) THEN 0 ELSE 1]

HistInit ==
    [stale |-> "clean",      \* "changed": obstacle applied, not solved; "half": distances only
     dist_for |-> NoTarget,  \* destination of the last distance solve
     dir_for |-> NoTarget,   \* destination of the last direction solve
     frame_dist |-> NoTarget,\* destination of the distance solve of this frame
     frame_dir |-> NoTarget, \* destination of the direction solve of this frame
     prior |-> FieldInit,    \* the field the distance solve of this frame started from
     prior_for |-> NoTarget, \* destination `prior` was fully solved for, if it was
     last_req |-> NoTarget,  \* coordinate of the last destination event sent
     due |-> NoTarget,       \* destination an obstacle edit asked a re-solve for
     restarted |-> FALSE]    \* the session is not the first one

\* the state setup leaves, for a session of at most `frames` frames with input
InitWith(frames) ==
    /\ field = FieldInit
    /\ global_state = "InGame"
    /\ colliders = [coord \in Coords |-> 0]
    /\ force = Vec2(0, 0)
    /\ target = NoTarget
    /\ ev_update_cell = EvEmpty
    /\ ev_dest = EvEmpty
    /\ ev_redraw = EvEmpty
    /\ rd = [r \in Readers |-> 0]
    /\ done = {}
    /\ input \in Inputs
    /\ budget = IF input = IdleInput THEN frames ELSE frames - 1
    /\ panicked = NoPanic
    /\ hist = HistInit

Init == InitWith(MaxInputFrames)

\* a session with one more frame of input: requests of two frames can meet
InitLong == InitWith(MaxInputFrames + 1)

----------------------------------------------------------------------------
(* The systems *)

\* target_state of debug_alter_cell_state: ShiftRight overrides ShiftLeft
TargetState(key) ==
    IF key = "ShiftRight" THEN "Empty"
    ELSE IF key = "ShiftLeft" THEN "Iron"
    ELSE "None"

\* does debug_alter_cell_state get past its early returns
AlterSends ==
    /\ TargetState(input.key) # "None"
    /\ InField(input.cursor)
    /\ TargetState(input.key) # field[input.cursor].state

debug_alter_cell_state ==
    /\ Ready("debug_alter_cell_state")
    /\ ev_update_cell' =
         IF AlterSends
         THEN EvSend(ev_update_cell,
                     [coord |-> input.cursor, new_state |-> TargetState(input.key)])
         ELSE ev_update_cell
    /\ ev_dest' = IF AlterSends /\ target # NoTarget
                  THEN EvSend(ev_dest, target) ELSE ev_dest
    /\ hist' = IF AlterSends /\ target # NoTarget
               THEN [hist EXCEPT !.last_req = target, !.due = target]
               ELSE hist
    /\ done' = done \cup {"debug_alter_cell_state"}
    /\ UNCHANGED <<global_state, field, colliders, force, target, ev_redraw, rd,
                   input, budget, panicked>>

\* a state change that also clears what the solver stored in the cell: what C16
\* rules out
RECURSIVE ApplyUpdatesClearing(_, _)
ApplyUpdatesClearing(f, events) ==
    IF events = <<>> THEN f
    ELSE ApplyUpdatesClearing(
             [f EXCEPT ![Head(events).coord] =
                 [@ EXCEPT !.state = Head(events).new_state,
                           !.debug_distance = F32_NAN,
                           !.debug_direction = VEC2_NAN]],
             Tail(events))

\* "for e in ev_update_cell.read()": cell.state = e.new_state, in order
RECURSIVE ApplyUpdates(_, _)
ApplyUpdates(f, events) ==
    IF events = <<>> THEN f
    ELSE ApplyUpdates([f EXCEPT ![Head(events).coord].state = Head(events).new_state],
                      Tail(events))

\* the collider part of the loop body: the cell set to an impassable state gets
\* one more fixed collider; nothing is ever despawned
RECURSIVE SpawnColliders(_, _)
SpawnColliders(col, events) ==
    IF events = <<>> THEN col
    ELSE SpawnColliders(
             IF is_passable(Head(events).new_state) THEN col
             ELSE [col EXCEPT ![Head(events).coord] = @ + 1],
             Tail(events))

\* get_cell_mut panics off the field; Cell::draw hits todo!() for Building and Mine
UpdatePanics(events) ==
    \E i \in 1..Len(events) :
        \/ ~InField(events[i].coord)
        \/ events[i].new_state \in {"Building", "Mine"}

update_cell_state ==
    /\ Ready("update_cell_state")
    /\ LET events == Unread(ev_update_cell, rd["update_cell_state"])
       IN  /\ rd' = [rd EXCEPT !["update_cell_state"] = Len(ev_update_cell.buf)]
           /\ IF UpdatePanics(events)
              THEN /\ panicked' = "update_cell_state"
                   /\ UNCHANGED <<field, colliders, hist>>
              ELSE /\ field' = ApplyUpdates(field, events)
                   /\ colliders' = SpawnColliders(colliders, events)
                   /\ panicked' = panicked
                   /\ hist' = IF events = <<>> THEN hist
                              ELSE [hist EXCEPT !.stale = "changed"]
    /\ done' = done \cup {"update_cell_state"}
    /\ UNCHANGED <<global_state, force, target, ev_update_cell, ev_dest, ev_redraw,
                   input, budget>>

debug_calculate_distance ==
    /\ Ready("debug_calculate_distance")
    /\ LET n == rd["debug_calculate_distance"]
       IN  IF n = Len(ev_dest.buf)
           THEN UNCHANGED <<field, rd, panicked, hist>>
           ELSE LET dest == ev_dest.buf[n + 1]
                IN  /\ rd' = [rd EXCEPT !["debug_calculate_distance"] = n + 1]
                    /\ IF ~get_cell(ResetDistances(field), dest).panic
                       THEN /\ field' = DistanceSolve(field, dest)
                            /\ panicked' = panicked
                            /\ hist' = [hist EXCEPT
                                          !.stale = "half",
                                          !.dist_for = dest,
                                          !.frame_dist = dest,
                                          !.prior = field,
                                          !.prior_for =
                                              IF /\ hist.stale = "clean"
                                                 /\ hist.dist_for = hist.dir_for
                                              THEN hist.dist_for ELSE NoTarget]
                       ELSE /\ field' = ResetDistances(field)
                            /\ panicked' = "debug_calculate_distance"
                            /\ UNCHANGED hist
    /\ done' = done \cup {"debug_calculate_distance"}
    /\ UNCHANGED <<global_state, colliders, force, target, ev_update_cell, ev_dest,
                   ev_redraw, input, budget>>

debug_calculate_direction ==
    /\ Ready("debug_calculate_direction")
    /\ LET n == rd["debug_calculate_direction"]
       IN  IF n = Len(ev_dest.buf)
           THEN UNCHANGED <<field, rd, ev_redraw, hist>>
           ELSE LET dest == ev_dest.buf[n + 1]
                    full == hist.frame_dist = dest
                IN  /\ rd' = [rd EXCEPT !["debug_calculate_direction"] = n + 1]
                    /\ field' = DirectionSolve(field, dest)
                    /\ ev_redraw' = EvSend(ev_redraw, "DebugRedrawEvent")
                    /\ hist' = [hist EXCEPT
                                  !.dir_for = dest,
                                  !.frame_dir = dest,
                                  !.stale = IF full /\ @ = "half" THEN "clean" ELSE @,
                                  !.due = IF full /\ @ = dest THEN NoTarget ELSE @]
    /\ done' = done \cup {"debug_calculate_direction"}
    /\ UNCHANGED <<global_state, colliders, force, target, ev_update_cell, ev_dest,
                   input, budget, panicked>>

\* draw_all: Cell::draw of every cell; todo!() for Building and Mine
DrawAllPanics(f) == \E coord \in Coords : f[coord].state \in {"Building", "Mine"}

debug_visual_redraw ==
    /\ Ready("debug_visual_redraw")
    /\ LET n == rd["debug_visual_redraw"]
       IN  IF n = Len(ev_redraw.buf)
           THEN UNCHANGED <<rd, panicked>>
           ELSE /\ rd' = [rd EXCEPT !["debug_visual_redraw"] = n + 1]
                /\ panicked' = IF DrawAllPanics(field) THEN "debug_visual_redraw"
                               ELSE panicked
    /\ done' = done \cup {"debug_visual_redraw"}
    /\ UNCHANGED <<global_state, field, colliders, force, target, ev_update_cell,
                   ev_dest, ev_redraw, input,
                   budget, hist>>

\* an in-place left click that is not on a unit
mouse_button_input ==
    /\ Ready("mouse_button_input")
    /\ ev_dest' = IF input.click THEN EvSend(ev_dest, input.cursor) ELSE ev_dest
    /\ hist' = IF input.click THEN [hist EXCEPT !.last_req = input.cursor] ELSE hist
    /\ done' = done \cup {"mouse_button_input"}
    /\ UNCHANGED <<global_state, field, colliders, force, target, ev_update_cell,
                   ev_redraw, rd, input,
                   budget, panicked>>

debug_unit_set_dest ==
    /\ Ready("debug_unit_set_dest")
    /\ LET events == Unread(ev_dest, rd["debug_unit_set_dest"])
       IN  /\ target' = IF events = <<>> THEN target ELSE events[Len(events)]
           /\ rd' = [rd EXCEPT !["debug_unit_set_dest"] = Len(ev_dest.buf)]
    /\ done' = done \cup {"debug_unit_set_dest"}
    /\ UNCHANGED <<global_state, field, colliders, force, ev_update_cell, ev_dest,
                   ev_redraw, input, budget,
                   panicked, hist>>

\* the factor of "* 1000.0" on the force
FORCE_GAIN == 1000

\* v.linvel.normalize() of the unit: NaN for a unit at rest, else a unit vector
Headings == {VEC2_NAN, Vec2(DIR_SCALE, 0)}

\* a consumer that applies the direction without the is_nan test: what C31
\* rules out
SteerForceUnchecked(cell, heading, old) ==
    IF cell.debug_distance = 0 THEN Vec2(0, 0)
    ELSE Vec2Scale(cell.debug_direction, FORCE_GAIN)

\* f.force after the loop body for a unit in cell, heading = v.linvel.normalize(),
\* old = f.force before
SteerForce(cell, heading, old) ==
    IF cell.debug_distance = 0 THEN Vec2(0, 0)
    ELSE IF ~cell.debug_direction.nan
    THEN LET dir_v_diff == Vec2Sub(cell.debug_direction, heading)
         IN  IF ~dir_v_diff.nan
             THEN Vec2Scale(Vec2Add(cell.debug_direction, Vec2Scale(dir_v_diff, 0)),
                            FORCE_GAIN)
             ELSE Vec2Scale(cell.debug_direction, FORCE_GAIN)
    ELSE old

\* one unit, in any cell: field.get_cell(cell_coord) panics off the field
debug_unit_velocity ==
    /\ Ready("debug_unit_velocity")
    /\ \E unit_cell \in UnitCells, heading \in Headings :
          IF get_cell(field, unit_cell).panic
          THEN /\ panicked' = "debug_unit_velocity"
               /\ force' = force
          ELSE /\ panicked' = panicked
               /\ force' = SteerForce(field[unit_cell], heading, force)
    /\ done' = done \cup {"debug_unit_velocity"}
    /\ UNCHANGED <<global_state, field, colliders, target, ev_update_cell, ev_dest,
                   ev_redraw, rd,
                   input, budget, hist>>

\* between two frames: Events::update of every event type, then the next input
frame_end ==
    /\ global_state = "InGame"
    /\ panicked = NoPanic
    /\ done = Systems
    /\ ev_update_cell' = EvUpdate(ev_update_cell)
    /\ ev_dest' = EvUpdate(ev_dest)
    /\ ev_redraw' = EvUpdate(ev_redraw)
    /\ rd' = [r \in Readers |->
                RdUpdate(rd[r],
                         IF r = "update_cell_state" THEN ev_update_cell
                         ELSE IF r = "debug_visual_redraw" THEN ev_redraw
                         ELSE ev_dest)]
    /\ done' = {}
    /\ input' \in NextInputs(budget)
    /\ budget' = IF input' = IdleInput THEN budget ELSE budget - 1
    /\ hist' = [hist EXCEPT !.frame_dist = NoTarget, !.frame_dir = NoTarget,
                             !.prior = FieldInit, !.prior_for = NoTarget]
    /\ UNCHANGED <<global_state, field, colliders, force, target, panicked>>

Next ==
    \/ debug_alter_cell_state
    \/ update_cell_state
    \/ debug_calculate_distance
    \/ debug_calculate_direction
    \/ debug_visual_redraw
    \/ mouse_button_input
    \/ debug_unit_set_dest
    \/ debug_unit_velocity
    \/ frame_end

Spec == Init /\ [][Next]_vars

LongSpec == InitLong /\ [][Next]_vars

----------------------------------------------------------------------------
(* Sessions: Return leaves the game for the menu, Play starts it again.  A   *)
(* state transition is applied between two frames; the events are updated   *)
(* every frame, in the menu as in the game.                                  *)

\* CellField::clear: self.0 = vec![]
CellFieldClear == <<>>

\* a cleanup that leaves the target alone: what C32 rules out
CleanupTargetKept(t) == t

\* cleanup of unit_move_plugin: debug_target_cell.0 = None
CleanupTarget(t) == NoTarget

\* Events::update of every event type, with the cursors of the readers
UpdateEvents ==
    /\ ev_update_cell' = EvUpdate(ev_update_cell)
    /\ ev_dest' = EvUpdate(ev_dest)
    /\ ev_redraw' = EvUpdate(ev_redraw)
    /\ rd' = [r \in Readers |->
                RdUpdate(rd[r],
                         IF r = "update_cell_state" THEN ev_update_cell
                         ELSE IF r = "debug_visual_redraw" THEN ev_redraw
                         ELSE ev_dest)]

\* OnExit(GlobalState::InGame) after a frame in which Return was pressed: the
\* cleanup systems of cell_plugin, unit_move_plugin and unit_plugin
session_end ==
    /\ global_state = "InGame"
    /\ panicked = NoPanic
    /\ done = Systems
    /\ UpdateEvents
    /\ global_state' = "Menu"
    /\ field' = CellFieldClear
    /\ target' = CleanupTarget(target)
    /\ force' = Vec2(0, 0)
    /\ done' = {}
    /\ input' = IdleInput
    /\ hist' = [hist EXCEPT !.frame_dist = NoTarget, !.frame_dir = NoTarget,
                             !.prior = FieldInit, !.prior_for = NoTarget]
    /\ UNCHANGED <<colliders, budget, panicked>>

\* a frame in the menu in which Play is not pressed
menu_frame ==
    /\ global_state = "Menu"
    /\ UpdateEvents
    /\ UNCHANGED <<global_state, field, colliders, force, target, done, input, budget,
                   panicked, hist>>

\* a frame in the menu in which Play is pressed, and OnEnter(GlobalState::InGame)
\* before the next: setup calls field.init(); the new session gets no input
session_start ==
    /\ global_state = "Menu"
    /\ UpdateEvents
    /\ global_state' = "InGame"
    /\ field' = FieldInit
    /\ done' = {}
    /\ input' = IdleInput
    /\ budget' = 0
    /\ hist' = [hist EXCEPT !.restarted = TRUE]
    /\ UNCHANGED <<colliders, force, target, panicked>>

NextSession ==
    \/ Next
    \/ session_end
    \/ menu_frame
    \/ session_start

SessionSpec == Init /\ [][NextSession]_vars

----------------------------------------------------------------------------
(* The solver on every layout: a field some obstacle edits have produced,   *)
(* never solved, with one destination event sent and not yet read by the    *)
(* solvers; the frame stands right before debug_calculate_distance.         *)

\* a layout: the cells of obs are Iron, the others Empty
Layout(obs) ==
    [coord \in Coords |->
        [coord |-> coord, state |-> IF coord \in obs THEN "Iron" ELSE "Empty",
         debug_distance |-> F32_NAN, debug_direction |-> VEC2_NAN]]

InitSolve ==
    /\ \E places \in [1..MaxObstacles -> Coords \cup {OutCell}] :
          field = Layout({places[i] : i \in 1..MaxObstacles})
    /\ \E dest \in Coords :
          /\ target = dest
          /\ ev_dest = [buf |-> <<dest>>, old |-> 0]
          /\ hist = [HistInit EXCEPT !.last_req = dest]
    /\ global_state = "InGame"
    /\ colliders = CollidersOf(field)
    /\ force = Vec2(0, 0)
    /\ ev_update_cell = EvEmpty
    /\ ev_redraw = EvEmpty
    /\ rd = [r \in Readers |-> IF r = "debug_unit_set_dest" THEN 1 ELSE 0]
    /\ done = Systems \ {"debug_calculate_distance", "debug_calculate_direction",
                         "debug_visual_redraw"}
    /\ input = IdleInput
    /\ budget = 0
    /\ panicked = NoPanic

NextSolve ==
    \/ debug_calculate_distance
    \/ debug_calculate_direction
    \/ debug_visual_redraw

SolveSpec == InitSolve /\ [][NextSolve]_vars

----------------------------------------------------------------------------
(* The re-solve: a field that was fully solved in earlier frames, first for *)
(* the target before and then for the target p; in the current frame the    *)
(* user clicked the cell under the                                          *)
(* cursor, or changed its state with a Shift key, or both.  mouse_button_   *)
(* input, debug_alter_cell_state and debug_unit_set_dest have run; the      *)
(* frame stands right before update_cell_state.                             *)

\* the cells a click or an obstacle edit can hit
ClickCells == CursorCells \ {OutCell}

\* the full solve, distance then direction
FullSolve(f, dest) == DirectionSolve(DistanceSolve(f, dest), dest)

\* the frame's state for the field solved earlier for the target p and the
\* frame's input
ResolveState(solved, p, in) ==
    LET new_state == TargetState(in.key)
        edited == new_state # "None" /\ new_state # solved[in.cursor].state
        dests == (IF in.click THEN <<in.cursor>> ELSE <<>>) \o
                 (IF edited THEN <<p>> ELSE <<>>)
    IN  /\ dests # <<>>
        /\ input = in
        /\ field = solved
        /\ ev_update_cell =
              [buf |-> IF edited
                       THEN <<[coord |-> in.cursor, new_state |-> new_state]>>
                       ELSE <<>>,
               old |-> 0]
        /\ ev_dest = [buf |-> dests, old |-> 0]
        /\ target = dests[Len(dests)]
        /\ rd = [r \in Readers |->
                    IF r = "debug_unit_set_dest" THEN Len(dests) ELSE 0]
        /\ hist = [HistInit EXCEPT
                      !.stale = "clean",
                      !.dist_for = p,
                      !.dir_for = p,
                      !.last_req = dests[Len(dests)],
                      !.due = IF edited THEN p ELSE NoTarget]

\* the obstacle layouts of the earlier frames
ResolveLayouts ==
    {Layout(obs) : obs \in {o \in SUBSET Coords : Cardinality(o) < MaxObstacles}}

\* (f @@ <<>> is the function f, enumerated)
InitResolve ==
    /\ \E layout \in ResolveLayouts, before \in ClickCells, p \in ClickCells :
          \E solved \in {FullSolve(first, p) @@ <<>> :
                            first \in {FullSolve(layout, before) @@ <<>>}},
             in \in [key : {"None", "ShiftLeft", "ShiftRight"}, click : BOOLEAN,
                     cursor : ClickCells] :
             ResolveState(solved, p, in)
    /\ global_state = "InGame"
    /\ colliders = CollidersOf(field)
    /\ force = Vec2(0, 0)
    /\ ev_redraw = EvEmpty
    /\ done = Systems \ {"update_cell_state", "debug_calculate_distance",
                         "debug_calculate_direction", "debug_visual_redraw"}
    /\ budget = 0
    /\ panicked = NoPanic

NextResolve ==
    \/ update_cell_state
    \/ debug_calculate_distance
    \/ debug_calculate_direction
    \/ debug_visual_redraw

ResolveSpec == InitResolve /\ [][NextResolve]_vars

----------------------------------------------------------------------------
(* The solver on every cell state: a never-solved field whose cells are      *)
(* Empty but for a few that hold one state of CellState, with one           *)
(* destination event sent and not yet read by the solvers; the frame stands *)
(* right before debug_calculate_distance.                                   *)

\* the cells of cells hold state, the others are Empty
StateLayout(cells, state) ==
    [coord \in Coords |->
        [coord |-> coord, state |-> IF coord \in cells THEN state ELSE "Empty",
         debug_distance |-> F32_NAN, debug_direction |-> VEC2_NAN]]

InitStates ==
    /\ \E cells \in {o \in SUBSET Coords : Cardinality(o) < MaxObstacles},
          state \in CellState :
          field = StateLayout(cells, state)
    /\ \E dest \in Coords :
          /\ target = dest
          /\ ev_dest = [buf |-> <<dest>>, old |-> 0]
          /\ hist = [HistInit EXCEPT !.last_req = dest]
    /\ global_state = "InGame"
    /\ colliders = CollidersOf(field)
    /\ force = Vec2(0, 0)
    /\ ev_update_cell = EvEmpty
    /\ ev_redraw = EvEmpty
    /\ rd = [r \in Readers |-> IF r = "debug_unit_set_dest" THEN 1 ELSE 0]
    /\ done = Systems \ {"debug_calculate_distance", "debug_calculate_direction",
                         "debug_visual_redraw"}
    /\ input = IdleInput
    /\ budget = 0
    /\ panicked = NoPanic

StateSpec == InitStates /\ [][NextSolve]_vars

----------------------------------------------------------------------------
(* Any obstacle-state request: an UpdateCellEvent for any cell of the grid   *)
(* and any state of CellState, sent and not yet read, together with the     *)
(* destination event of the frame; the field has a few Iron cells and was    *)
(* never solved; the frame stands right before update_cell_state.            *)

\* the destinations of the frame
RequestDests == ClickCells

InitRequest ==
    /\ \E layout \in ResolveLayouts : field = layout
    /\ global_state = "InGame"
    /\ colliders = CollidersOf(field)
    /\ force = Vec2(0, 0)
    /\ \E coord \in Coords, new_state \in CellState :
          ev_update_cell = [buf |-> <<[coord |-> coord, new_state |-> new_state]>>,
                            old |-> 0]
    /\ \E dest \in RequestDests :
          /\ target = dest
          /\ ev_dest = [buf |-> <<dest>>, old |-> 0]
          /\ hist = [HistInit EXCEPT !.last_req = dest, !.due = dest]
    /\ ev_redraw = EvEmpty
    /\ rd = [r \in Readers |-> IF r = "debug_unit_set_dest" THEN 1 ELSE 0]
    /\ done = Systems \ {"update_cell_state", "debug_calculate_distance",
                         "debug_calculate_direction", "debug_visual_redraw"}
    /\ input = IdleInput
    /\ budget = 0
    /\ panicked = NoPanic

RequestSpec == InitRequest /\ [][NextResolve]_vars

----------------------------------------------------------------------------
(* Shortest paths, as the specification words them: the reference the       *)
(* solver is compared with.  Lengths are exact sums in units of 2^-23.      *)

Abs(n) == IF n < 0 THEN -n ELSE n

Min(S) == CHOOSE m \in S : \A n \in S : m <= n

Diagonal(u, v) == u[1] # v[1] /\ u[2] # v[2]

\* the two cells orthogonally adjacent to the diagonal step u -> v are both impassable
CornerBlocked(f, u, v) ==
    /\ Diagonal(u, v)
    /\ ~Passable(f, <<u[1], v[2]>>)
    /\ ~Passable(f, <<v[1], u[2]>>)

Adjacent8(u, v) ==
    /\ u # v
    /\ Abs(u[1] - v[1]) <= 1
    /\ Abs(u[2] - v[2]) <= 1

\* a step a path may take: between passable neighbours, not through a solid corner
PathStep(f, u, v) ==
    /\ Adjacent8(u, v)
    /\ Passable(f, u)
    /\ Passable(f, v)
    /\ ~CornerBlocked(f, u, v)

PathCost(u, v) == IF Diagonal(u, v) THEN F32_SQRT2 ELSE F32_ONE

Unreached == F32_MAX

\* the cells of the field around v
Around(v) ==
    {w \in {<<v[1] + a, v[2] + b>> : a, b \in -1..1} : InField(w)}

PathRelax(f, D) ==
    [v \in Coords |->
        Min({D[v]} \cup
            {D[u] + PathCost(u, v) :
                u \in {w \in Around(v) : D[w] # Unreached /\ PathStep(f, w, v)}})]

RECURSIVE PathFix(_, _)
PathFix(f, D) ==
    LET N == PathRelax(f, D) IN IF N = D THEN D ELSE PathFix(f, N)

\* the length of the shortest path of every cell to dest, Unreached where there is none
ShortestPaths(f, dest) ==
    PathFix(f, [v \in Coords |-> IF v = dest /\ Passable(f, dest) THEN 0 ELSE Unreached])

\* d is exact up to the rounding of a sum of at most 16 f32 additions: 2^-20 of it
WithinTolerance(d, exact) == Abs(d - exact) <= exact \div (2 ^ 20)

\* debug_calculate_distance has solved in this frame, and nothing has panicked
SolvedThisFrame == hist.frame_dist # NoTarget /\ panicked = NoPanic

AllEmpty == \A coord \in Coords : field[coord].state = "Empty"

\* C1: after a distance solve for d, every passable cell with a path to d has the
\* length of its shortest path (orthogonal 1, diagonal sqrt 2, passable cells only,
\* no step through a solid corner) as its distance, within f32 tolerance; on the
\* all-Empty grid with d = (2,2): distance(2,2) = 0, (0,0) = 2*sqrt 2, (2,0) = 2.
C1_DistanceIsShortestPath ==
    SolvedThisFrame =>
        LET ref == ShortestPaths(field, hist.frame_dist)
        IN  /\ \A v \in Coords :
                  (Passable(field, v) /\ ref[v] # Unreached) =>
                      /\ field[v].debug_distance # F32_MAX
                      /\ WithinTolerance(field[v].debug_distance, ref[v])
            /\ (AllEmpty /\ hist.frame_dist = <<2, 2>>) =>
                  /\ field[<<2, 2>>].debug_distance = 0
                  /\ field[<<0, 0>>].debug_distance = 2 * F32_SQRT2
                  /\ field[<<2, 0>>].debug_distance = 2 * F32_ONE

\* a solve in which (2,0), two orthogonal steps from the destination (2,2), has
\* to go around the obstacles (2,1) and (1,1): four steps, two of them diagonal
C1_Witness ==
    /\ SolvedThisFrame
    /\ hist.frame_dist = <<2, 2>>
    /\ ~Passable(field, <<2, 1>>)
    /\ ~Passable(field, <<1, 1>>)
    /\ field[<<2, 0>>].debug_distance # F32_MAX
    /\ field[<<2, 0>>].debug_distance > 4 * F32_ONE

\* the distance of v is what a relaxation from u gives
RealisedFrom(f, u, v) ==
    /\ f[u].debug_distance # F32_MAX
    /\ f[v].debug_distance = F32Add(f[u].debug_distance, PathCost(u, v))

\* C2: the solver never relaxes across a diagonal whose two side cells are both
\* impassable: every reached cell but the destination owes its distance to a
\* neighbour it is not corner-blocked from; with destination (2,2) and (2,1), (1,2)
\* impassable, distance(1,1) is greater than sqrt 2.
C2_NoCornerCutting ==
    SolvedThisFrame =>
        /\ \A v \in Coords :
              (v # hist.frame_dist /\ field[v].debug_distance # F32_MAX) =>
                  \E u \in Around(v) :
                      /\ Adjacent8(u, v)
                      /\ ~CornerBlocked(field, u, v)
                      /\ RealisedFrom(field, u, v)
        /\ ( /\ hist.frame_dist = <<2, 2>>
             /\ ~Passable(field, <<2, 1>>)
             /\ ~Passable(field, <<1, 2>>)
             /\ Passable(field, <<1, 1>>) ) =>
                field[<<1, 1>>].debug_distance > F32_SQRT2

\* a solve in which a reached cell has a reached neighbour across a solid corner
C2_Witness ==
    /\ SolvedThisFrame
    /\ \E u, v \in Coords :
          /\ Adjacent8(u, v)
          /\ Passable(field, u)
          /\ Passable(field, v)
          /\ CornerBlocked(field, u, v)
          /\ field[u].debug_distance # F32_MAX
          /\ field[v].debug_distance # F32_MAX
          /\ field[v].debug_distance > F32Add(field[u].debug_distance, F32_SQRT2)

\* C10 as claimed: after a solve a passable cell without a corner-respecting
\* passable path to the destination has distance f32::MAX, and every cell with a
\* finite distance has such a path.
C10_UnreachableIsInfinite ==
    SolvedThisFrame =>
        LET ref == ShortestPaths(field, hist.frame_dist)
        IN  \A v \in Coords :
                /\ (Passable(field, v) /\ ref[v] = Unreached) =>
                      field[v].debug_distance = F32_MAX
                /\ field[v].debug_distance # F32_MAX => ref[v] # Unreached

----------------------------------------------------------------------------
(* The update protocol *)

DestReaders == {"debug_unit_set_dest", "debug_calculate_distance",
                "debug_calculate_direction"}

\* sys reads one destination event in this step
ReadsDest(sys) == rd'[sys] = rd[sys] + 1 /\ sys \in done' \ done

\* the destination event the solver sys reads next
NextDest(sys) == ev_dest.buf[rd[sys] + 1]

\* a frame boundary with every destination event read or dropped
Drained ==
    /\ done = {}
    /\ panicked = NoPanic
    /\ \A r \in DestReaders : rd[r] = Len(ev_dest.buf)

Impassable(coord) == InField(coord) /\ ~Passable(field, coord)

\* C3 as claimed: a destination request for an impassable cell is rejected: the
\* active destination is not replaced by it, no solve runs for it, and every cell's
\* distance and direction stay as they were.
C3_ImpassableDestinationRejected ==
    [][ /\ (target' # target) => ~Impassable(target')
        /\ \A sys \in {"debug_calculate_distance", "debug_calculate_direction"} :
              (ReadsDest(sys) /\ Impassable(NextDest(sys))) => field' = field
      ]_vars

\* C4 as claimed: the steering consumer never reads the field between an applied
\* obstacle change and the end of the full solve (distance, then direction) for it.
\* A read counts when a solve for the change is on its way: the distances are
\* solved and the directions are not, or an obstacle edit has asked for a re-solve.
C4_NoStaleRead ==
    [][ ("debug_unit_velocity" \in done' \ done /\ panicked' = NoPanic)
            => /\ hist.stale # "half"
               /\ ~(hist.stale = "changed" /\ hist.due # NoTarget) ]_vars

\* C5 as claimed: once the pending destination events are drained, the active
\* destination and the destination of the last distance and direction solves are
\* the coordinate of the most recent destination request.
C5_LastRequestWins ==
    (Drained /\ hist.last_req # NoTarget) =>
        /\ target = hist.last_req
        /\ hist.dist_for = hist.last_req
        /\ hist.dir_for = hist.last_req

\* the obstacle events sent in the current frame
SentThisFrame == Unread(ev_update_cell, ev_update_cell.old)

\* C6: within a frame every pending obstacle-state request is applied before the
\* distance solve begins: when debug_calculate_distance has run, update_cell_state
\* has run before it, has read every stored event, and the cell of every request of
\* the frame holds the requested state.
C6_ObstaclesAppliedBeforeSolve ==
    ("debug_calculate_distance" \in done) =>
        /\ {"debug_alter_cell_state", "update_cell_state"} \subseteq done
        /\ rd["update_cell_state"] = Len(ev_update_cell.buf)
        /\ \A i \in 1..Len(SentThisFrame) :
              field[SentThisFrame[i].coord].state = SentThisFrame[i].new_state

\* a frame whose distance solve ran on a field an obstacle request of the same
\* frame had just changed
C6_Witness ==
    /\ "debug_calculate_distance" \in done
    /\ hist.frame_dist # NoTarget
    /\ SentThisFrame # <<>>
    /\ ~Passable(field, SentThisFrame[1].coord)

\* C7 as claimed: an accepted obstacle-state request replaces the cell's state and,
\* when a destination is set, is always followed by a full re-solve for it: when
\* the destination events are drained no re-solve is still due; while no
\* destination was ever requested no cell has a distance or a direction.
C7_ObstacleEditResolves ==
    /\ ("update_cell_state" \in done /\ panicked = NoPanic) =>
          \A i \in 1..Len(SentThisFrame) :
              field[SentThisFrame[i].coord].state = SentThisFrame[i].new_state
    /\ Drained => hist.due = NoTarget
    /\ hist.last_req = NoTarget =>
          \A coord \in Coords :
              /\ field[coord].debug_distance = F32_NAN
              /\ field[coord].debug_direction = VEC2_NAN

\* C8 as claimed: a destination request off the grid is rejected before any
\* mutation: no distance or direction changes, the active destination stays, and
\* no system panics.
C8_OutOfGridDestinationRejected ==
    [][ /\ (target' # target) => InField(target')
        /\ \A sys \in {"debug_calculate_distance", "debug_calculate_direction"} :
              (ReadsDest(sys) /\ ~InField(NextDest(sys))) =>
                  (field' = field /\ panicked' = NoPanic)
      ]_vars

\* C9 as claimed: get and get_mut with a coordinate off the field hand an
\* OutOfBounds error to the caller and never panic, so no system that looks a
\* cell up (the distance solver, the steering consumer) ever panics in the lookup;
\* on the field they give the cell whose coord is the argument.
C9_GetReturnsOutOfBounds ==
    /\ panicked \notin {"debug_calculate_distance", "debug_unit_velocity"}
    /\ \A coord \in Coords :
          /\ ~get_cell(field, coord).panic
          /\ get_cell(field, coord).cell.coord = coord

----------------------------------------------------------------------------
(* The solved field *)

\* C11: right after every successful distance solve the destination cell has
\* distance exactly 0 and no other cell has distance 0.
C11_OnlyDestinationIsZero ==
    SolvedThisFrame =>
        \A coord \in Coords :
            (field[coord].debug_distance = 0) <=> (coord = hist.frame_dist)

\* a solve that has reached a cell other than the destination
C11_Witness ==
    /\ SolvedThisFrame
    /\ field[hist.frame_dist].debug_distance = 0
    /\ \E coord \in Coords \ {hist.frame_dist} :
          /\ field[coord].debug_distance # F32_MAX
          /\ field[coord].debug_distance > 0

\* the distance and the direction solver have both run in this frame, for the
\* same destination
FullSolveThisFrame == SolvedThisFrame /\ hist.frame_dir = hist.frame_dist

\* the vector has magnitude 1, up to 1% of its square (fixed-point rounding)
IsUnit(v) ==
    /\ ~v.nan
    /\ Abs(v.x * v.x + v.y * v.y - DIR_SCALE * DIR_SCALE) * 100 <= DIR_SCALE * DIR_SCALE

C13_NoDirectionOnDestinationAndObstacles ==
    FullSolveThisFrame =>
        \A coord \in Coords :
            (coord = hist.frame_dist \/ ~Passable(field, coord)) =>
                field[coord].debug_direction.nan

\* a re-solve after an obstacle edit: a cell that is not the destination is
\* impassable now and had a defined direction in the field the solve started from
C13_Witness ==
    /\ FullSolveThisFrame
    /\ \E coord \in Coords \ {hist.frame_dist} :
          /\ ~Passable(field, coord)
          /\ ~hist.prior[coord].debug_direction.nan
          /\ field[coord].debug_direction.nan

\* the field carries the values of a full solve for the destination of this
\* frame's solve, made in an earlier frame, and no obstacle changed since
ResolvingSame == hist.prior_for # NoTarget /\ hist.prior_for = hist.frame_dist

\* C14: solving again for the same destination with no obstacle change in
\* between leaves every cell's distance (after the distance pass) and every
\* cell's distance and direction (after the direction pass) as the first solve
\* left them.
C14_SolveIsIdempotent ==
    /\ (SolvedThisFrame /\ ResolvingSame) =>
           \A coord \in Coords :
               field[coord].debug_distance = hist.prior[coord].debug_distance
    /\ (FullSolveThisFrame /\ ResolvingSame) =>
           \A coord \in Coords :
               field[coord].debug_direction = hist.prior[coord].debug_direction

\* a second full solve for the same destination on a field with an obstacle,
\* where some cell has a positive finite distance and a defined direction
C14_Witness ==
    /\ FullSolveThisFrame
    /\ ResolvingSame
    /\ \E coord \in Coords : ~Passable(field, coord)
    /\ \E coord \in Coords :
          /\ field[coord].debug_distance > 0
          /\ field[coord].debug_distance < F32_MAX
          /\ ~field[coord].debug_direction.nan

\* a field with the same cell states that no solve has touched
Unsolved(f) ==
    [coord \in Coords |->
        [f[coord] EXCEPT !.debug_distance = F32_NAN, !.debug_direction = VEC2_NAN]]

\* C15: what a solve leaves depends on the cell states and the destination
\* only: the distances after the distance pass, and the whole field after the
\* direction pass, are those of the same solve on a field that was never solved
\* before, whatever solves and obstacle edits came earlier.
C15_FullResolve ==
    SolvedThisFrame =>
        \E fresh \in {DistanceSolve(Unsolved(field), hist.frame_dist)} :
            /\ \A coord \in Coords :
                  field[coord].debug_distance = fresh[coord].debug_distance
            /\ FullSolveThisFrame => field = DirectionSolve(fresh, hist.frame_dist)

\* a full solve on a field with an obstacle that held the values of an earlier
\* solve: some cell had a finite distance and a defined direction before, and
\* has another distance and another direction now
C15_Witness ==
    /\ FullSolveThisFrame
    /\ \E coord \in Coords : ~Passable(field, coord)
    /\ \E coord \in Coords :
          /\ hist.prior[coord].debug_distance # F32_NAN
          /\ hist.prior[coord].debug_distance < F32_MAX
          /\ ~hist.prior[coord].debug_direction.nan
          /\ field[coord].debug_distance # hist.prior[coord].debug_distance
          /\ field[coord].debug_direction # hist.prior[coord].debug_direction

----------------------------------------------------------------------------
(* Cell states *)

\* a step of update_cell_state that does not panic
UpdateStep ==
    /\ "update_cell_state" \notin done
    /\ "update_cell_state" \in done'
    /\ panicked' = NoPanic

\* the events for coord among the events, in order
EventsFor(events, coord) == SelectSeq(events, LAMBDA e : e.coord = coord)

\* C16: update_cell_state replaces the state of the cells its events name, by
\* the state of the last event for the cell, and nothing else: every other cell
\* and every cell's distance and direction stay as they were, and the step sends
\* no destination or redraw event and leaves the target alone.
C16_SetStateChangesOnlyState ==
    [][UpdateStep =>
        LET events == Unread(ev_update_cell, rd["update_cell_state"])
        IN  /\ \A coord \in Coords :
                  LET mine == EventsFor(events, coord)
                  IN  field'[coord] =
                          IF mine = <<>> THEN field[coord]
                          ELSE [field[coord] EXCEPT !.state = mine[Len(mine)].new_state]
            /\ ev_dest' = ev_dest
            /\ ev_redraw' = ev_redraw
            /\ target' = target]_vars

\* update_cell_state turned a solved cell into an obstacle and the solve has
\* not run yet: the obstacle still carries its finite distance and its direction
C16_Witness ==
    /\ "update_cell_state" \in done
    /\ "debug_calculate_distance" \notin done
    /\ hist.stale = "changed"
    /\ panicked = NoPanic
    /\ \E coord \in Coords :
          /\ field[coord].state = "Iron"
          /\ field[coord].debug_distance > 0
          /\ field[coord].debug_distance < F32_MAX
          /\ ~field[coord].debug_direction.nan

----------------------------------------------------------------------------
(* Neighbours *)

\* the 8 grid neighbours of coord, on or off the field
Neighbours8(coord) ==
    {<<coord[1] + a, coord[2] + b>> : a, b \in -1..1} \ {coord}

\* the neighbours the specification calls reachable: inside the grid, passable,
\* and not a diagonal whose two side cells are both impassable
ReachableNeighbours(f, coord) ==
    {v \in Neighbours8(coord) :
        /\ InField(v)
        /\ Passable(f, v)
        /\ ~(Diagonal(coord, v) /\ ~Passable(f, <<coord[1], v[2]>>)
                                /\ ~Passable(f, <<v[1], coord[2]>>))}

\* C17: for every cell, get_reachable_adjacent_cells returns exactly the
\* reachable neighbours, each once: a diagonal neighbour is left out if and only
\* if both side cells of the step are impassable.
C17_ReachableNeighboursExact ==
    \A coord \in Coords :
        \E got \in {get_reachable_adjacent_cells(field, coord)},
           want \in {ReachableNeighbours(field, coord)} :
            /\ {got[k] : k \in 1..Len(got)} = want
            /\ Len(got) = Cardinality(want)

\* the direction pass asked for the neighbours of every cell of a field where
\* one passable diagonal neighbour has both side cells impassable and is left
\* out, and another has exactly one side cell impassable and is returned
C17_Witness ==
    /\ FullSolveThisFrame
    /\ \E coord \in Coords :
          \E v \in Neighbours8(coord) \cap Coords :
              /\ Diagonal(coord, v)
              /\ Passable(field, v)
              /\ ~Passable(field, <<coord[1], v[2]>>)
              /\ ~Passable(field, <<v[1], coord[2]>>)
              /\ \A k \in DOMAIN get_reachable_adjacent_cells(field, coord) :
                    get_reachable_adjacent_cells(field, coord)[k] # v
    /\ \E coord \in Coords :
          \E v \in Neighbours8(coord) \cap Coords :
              /\ Diagonal(coord, v)
              /\ Passable(field, v)
              /\ ~Passable(field, <<coord[1], v[2]>>)
              /\ Passable(field, <<v[1], coord[2]>>)
              /\ \E k \in DOMAIN get_reachable_adjacent_cells(field, coord) :
                    get_reachable_adjacent_cells(field, coord)[k] = v

\* the states the specification calls passable
PassableStates == {"Empty", "Mine"}

\* C18: in every state of the field a cell is passable exactly when its state is
\* Empty or Mine; cells in state Water, Iron, Rock or Building are not.
C18_PassableIsEmptyOrMine ==
    \A coord \in Coords :
        /\ field[coord].state \in CellState
        /\ Passable(field, coord) <=> field[coord].state \in PassableStates

\* a full solve of a field with a Mine cell that is not the destination: the
\* passes took it for passable and gave it a finite distance and a direction
C18_Witness ==
    /\ FullSolveThisFrame
    /\ \E coord \in Coords \ {hist.frame_dist} :
          /\ field[coord].state = "Mine"
          /\ field[coord].debug_distance > 0
          /\ field[coord].debug_distance < F32_MAX
          /\ ~field[coord].debug_direction.nan

----------------------------------------------------------------------------
(* The start of a session *)

\* setup has run and nothing has been asked of the field since
SessionStart ==
    /\ hist = HistInit
    /\ target = NoTarget
    /\ ev_update_cell = EvEmpty
    /\ ev_dest = EvEmpty
    /\ ev_redraw = EvEmpty
    /\ panicked = NoPanic

\* C19: when a session starts the field holds BOARD_COLUMN x BOARD_ROW cells,
\* the cell at index (c, r) has coord (c, r), and every cell is Empty, with the
\* distance sentinel of unreached cells (f32::MAX) and the NaN direction.
C19_InitialField ==
    SessionStart =>
        /\ DOMAIN field = (0..(BOARD_COLUMN - 1)) \X (0..(BOARD_ROW - 1))
        /\ \A coord \in DOMAIN field :
              /\ field[coord].coord = coord
              /\ field[coord].state = "Empty"
              /\ field[coord].debug_distance = F32_MAX
              /\ field[coord].debug_direction.nan

----------------------------------------------------------------------------
(* The redraw signal *)

\* a step that sends a DebugRedrawEvent
RedrawSent ==
    /\ "debug_calculate_direction" \notin done
    /\ "debug_calculate_direction" \in done'
    /\ Len(ev_redraw'.buf) = Len(ev_redraw.buf) + 1

\* a step that completes a solve: the direction pass for the destination the
\* distance pass of the same frame solved for
SolveCompleted ==
    /\ "debug_calculate_direction" \notin done
    /\ "debug_calculate_direction" \in done'
    /\ hist'.frame_dir # NoTarget
    /\ hist'.frame_dir = hist'.frame_dist

\* C20: the step that completes a solve (distance pass, then direction pass, for
\* one destination) sends a redraw event, and a redraw event is sent only by
\* such a step.
C20_RedrawIffSolveCompleted ==
    [][SolveCompleted <=> RedrawSent]_vars

----------------------------------------------------------------------------
(* The two passes of a solve *)

\* a step of debug_calculate_direction that read a destination event
DirectionPassRan ==
    /\ "debug_calculate_direction" \notin done
    /\ "debug_calculate_direction" \in done'
    /\ rd'["debug_calculate_direction"] = rd["debug_calculate_direction"] + 1

\* C21: whenever debug_calculate_direction computes directions for a
\* destination, debug_calculate_distance has solved for that destination earlier
\* in the same frame, however mouse_button_input interleaves with the chain.
C21_DirectionOnFreshDistances ==
    [][DirectionPassRan =>
          /\ hist.frame_dist # NoTarget
          /\ hist.frame_dist = ev_dest.buf[rd["debug_calculate_direction"] + 1]]_vars

----------------------------------------------------------------------------
(* Following the field *)

\* a passable cell a solve has reached that is not the destination
ReachedCell(coord) ==
    /\ Passable(field, coord)
    /\ field[coord].debug_distance > 0
    /\ field[coord].debug_distance < F32_MAX

\* C22: after a solve every passable cell with a finite non-zero distance has a
\* candidate, and the smallest distance among its candidates is strictly smaller
\* than its own, so stepping to the nearest candidate descends to the destination.
C22_NoStuckCell ==
    FullSolveThisFrame =>
        \A coord \in Coords :
            ReachedCell(coord) =>
                \E cands \in {Candidates(field, coord)} :
                    /\ cands # <<>>
                    /\ MinAdjDist(field, cands, F32_MAX) < field[coord].debug_distance

\* neighbour i of coord in the fixed enumeration order:
\* N, E, S, W, NW, SW, NE, SE
NeighbourAt(coord, i) == <<coord[1] + dc[i], coord[2] + dr[i]>>

\* the places in the enumeration order of the candidates of coord: the reachable
\* neighbours a solve has given a finite distance
CandidateIndexes(f, coord) ==
    UNION {{i \in 1..8 :
               /\ NeighbourAt(coord, i) \in reach
               /\ f[NeighbourAt(coord, i)].debug_distance # F32_MAX} :
           reach \in {ReachableNeighbours(f, coord)}}

\* of the candidates at the places idx, the one of minimum distance, the
\* earliest in the order among equals
NearestAmong(f, coord, idx) ==
    LET dist(i) == f[NeighbourAt(coord, i)].debug_distance
        best == CHOOSE i \in idx :
                    \A j \in idx : dist(i) < dist(j) \/ (dist(i) = dist(j) /\ i <= j)
    IN  NeighbourAt(coord, best)

NearestCandidate(f, coord) == NearestAmong(f, coord, CandidateIndexes(f, coord))

\* C23: after a solve, a passable cell that is not the destination and has at
\* least one and fewer than 8 candidates points with a unit vector at its
\* candidate of minimum distance, the earliest in the enumeration order N, E, S,
\* W, NW, SW, NE, SE among candidates of equal distance.
C23_NearestCandidateFirstInOrder ==
    FullSolveThisFrame =>
        \A coord \in Coords \ {hist.frame_dist} :
            Passable(field, coord) =>
                \E idx \in {CandidateIndexes(field, coord)} :
                    (idx # {} /\ Cardinality(idx) < 8) =>
                        field[coord].debug_direction =
                            Vec2Normalize(OffsetVec(coord, NearestAmong(field, coord, idx)))

\* a solve left a cell with fewer than 8 candidates of which two share the
\* minimum distance, and the cell points at the earlier one
C23_Witness ==
    /\ FullSolveThisFrame
    /\ \E coord \in Coords \ {hist.frame_dist} :
          /\ Passable(field, coord)
          /\ \E i, j \in CandidateIndexes(field, coord) :
                /\ i < j
                /\ NeighbourAt(coord, i) = NearestCandidate(field, coord)
                /\ field[NeighbourAt(coord, j)].debug_distance =
                       field[NeighbourAt(coord, i)].debug_distance
                /\ field[coord].debug_direction =
                       Vec2Normalize(OffsetVec(coord, NeighbourAt(coord, i)))
                /\ field[coord].debug_direction #
                       Vec2Normalize(OffsetVec(coord, NeighbourAt(coord, j)))

----------------------------------------------------------------------------
(* The blend of a fully open cell *)

\* the direction pass of this frame, for the destination dest, finds 8 candidates
\* around coord, none of them the destination, whose weighted vectors sum to zero
BlendCancels(coord, dest) ==
    /\ Passable(field, coord)
    /\ coord # dest
    /\ \E cands \in {Candidates(field, coord)} :
          /\ Len(cands) = 8
          /\ \A k \in 1..8 : cands[k] # dest
          /\ Vec2Sum(BlendVecs(field, coord, dest, cands,
                               MinAdjDist(field, cands, F32_MAX), <<>>)) = Vec2(0, 0)

\* C24: when the weighted sum of the 8 candidate vectors of a fully open cell is
\* the zero vector, the direction pass stores a unit vector for the cell (that
\* of the nearest-neighbour rule), never NaN.
C24_ZeroSumFallsBack ==
    (hist.frame_dir # NoTarget /\ panicked = NoPanic) =>
        \A coord \in Coords :
            BlendCancels(coord, hist.frame_dir) => IsUnit(field[coord].debug_direction)

----------------------------------------------------------------------------
(* The work queue of the distance solve *)

\* pops after which a solve counts as not terminating: every cell would have
\* been popped once for each of its 8 neighbours, and once more
PopLimit == 9 * BOARD_COLUMN * BOARD_ROW

\* one pop took the field f to g and appended pushed to the queue: every pushed
\* cell got a strictly smaller distance, every other cell kept its distance
PopIsSound(f, g, pushed) ==
    \E cells \in {{<<pushed[k][1], pushed[k][2]>> : k \in DOMAIN pushed}} :
        /\ Cardinality(cells) = Len(pushed)
        /\ \A k \in DOMAIN pushed :
              /\ g[<<pushed[k][1], pushed[k][2]>>].debug_distance = pushed[k][3]
              /\ pushed[k][3] < f[<<pushed[k][1], pushed[k][2]>>].debug_distance
        /\ \A coord \in Coords \ cells :
              g[coord].debug_distance = f[coord].debug_distance

\* the while loop, pop by pop, from the field f and the queue q: did the queue
\* run empty within PopLimit pops, in how many, and was every pop sound
RECURSIVE SolveRun(_, _, _)
\* the run whose first pop leaves the field and the queue of after
SolveRunAfter(f, q, pops, after) ==
    CHOOSE run \in
        {[rest EXCEPT !.sound = @ /\ PopIsSound(f, after[1],
                              SubSeq(after[2], Len(q), Len(after[2])))] :
            rest \in {SolveRun(after[1], after[2], pops + 1)}} : TRUE

SolveRun(f, q, pops) ==
    IF q = <<>> THEN [ended |-> TRUE, pops |-> pops, sound |-> TRUE, final |-> f]
    ELSE IF pops >= PopLimit
    THEN [ended |-> FALSE, pops |-> pops, sound |-> TRUE, final |-> f]
    ELSE CHOOSE run \in
             {SolveRunAfter(f, q, pops, after) :
                 after \in {RelaxFrom(f, Tail(q), Head(q)[1], Head(q)[2],
                                      Head(q)[3], 1)}} : TRUE

\* the run of the solve of the field f for the destination dest
SolveRunFor(f, dest) ==
    SolveRun([ResetDistances(f) EXCEPT ![dest].debug_distance = 0] @@ <<>>,
             <<<<dest[1], dest[2], 0>>>>, 0)

\* C25: the distance solve of every field for every destination on the grid
\* terminates: every pop pushes only cells whose distance it has strictly
\* lowered, each once, no distance ever rises, and the queue runs empty within
\* PopLimit pops; the field the run ends with is the field the solve leaves.
C25_DistanceSolveTerminates ==
    (SolvedThisFrame /\ "debug_calculate_direction" \notin done) =>
        \E run \in {SolveRunFor(hist.prior, hist.frame_dist)} :
            /\ run.ended
            /\ run.sound
            /\ \A coord \in Coords :
                  run.final[coord].debug_distance = field[coord].debug_distance

\* a solve has run in which some cell was pushed more than once: more pops than
\* the destination and one for every other passable cell
C25_Witness ==
    /\ SolvedThisFrame
    /\ "debug_calculate_direction" \notin done
    /\ \E run \in {SolveRunFor(hist.prior, hist.frame_dist)} :
          /\ run.ended
          /\ run.pops > Cardinality({coord \in Coords : Passable(field, coord)})

----------------------------------------------------------------------------
(* The destination and the obstacles *)

\* C26: after any sequence of obstacle edits and destination requests the active
\* destination, when one is set on the grid, is a passable cell, and every
\* distance solve, the re-solve after an obstacle edit included, has run for a
\* passable destination.
C26_DestinationStaysPassable ==
    /\ (target # NoTarget /\ InField(target)) => Passable(field, target)
    /\ SolvedThisFrame => Passable(field, hist.frame_dist)

----------------------------------------------------------------------------
(* The neighbours of the solver and the candidates of the direction pass *)

\* the cells the loop body of the distance solver may relax when it pops coord
SolverNeighbours(f, coord) ==
    {NeighbourAt(coord, i) :
        i \in {j \in 1..8 : SolverStepAllowed(f, coord[1], coord[2], j)}}

\* the cells get_reachable_adjacent_cells returns for coord
ReachableSet(f, coord) ==
    \* forced: the sequence is read once for each of its places
    UNION {{cells[k] : k \in DOMAIN cells} :
           cells \in {get_reachable_adjacent_cells(f, coord) @@ <<>>}}

\* the distance solve of this frame has popped coord: the destination and every
\* cell it has reached
Popped(coord) ==
    coord = hist.frame_dist \/ field[coord].debug_distance < F32_MAX

\* the solver relaxes over the cells get_reachable_adjacent_cells returns
SolverRelaxesReachable ==
    SolvedThisFrame =>
        \A via \in Coords :
            Popped(via) => SolverNeighbours(field, via) = ReachableSet(field, via)

\* C27: for every cell the distance solve has popped, the cells the solver
\* considers for relaxation are exactly get_reachable_adjacent_cells of that
\* cell, so a popped cell is offered to a passable cell X as a direction
\* candidate if and only if the solver can relax X through it.
C27_SolverRelaxesOverReachable ==
    /\ SolverRelaxesReachable
    /\ SolvedThisFrame =>
          \A via \in Coords : Popped(via) =>
              \A x \in Coords : Passable(field, x) =>
                  (via \in ReachableSet(field, x) <=> x \in SolverNeighbours(field, via))

----------------------------------------------------------------------------
(* The six cell states *)

\* update_cell_state has run in this frame and the requests it read are still
\* stored
RequestsHandled ==
    /\ "update_cell_state" \in done
    /\ rd["update_cell_state"] = Len(ev_update_cell.buf)
    /\ ev_update_cell.buf # <<>>
    /\ \A i \in DOMAIN ev_update_cell.buf : InField(ev_update_cell.buf[i].coord)

\* C28: a request to set a cell of the grid to any of the six cell states,
\* Building and Mine included, is applied: the cell holds the new state and the
\* step, with the redraw of the cell, has completed without panic.
C28_EveryStateIsApplied ==
    RequestsHandled =>
        /\ panicked # "update_cell_state"
        /\ \E last \in {ev_update_cell.buf[Len(ev_update_cell.buf)]} :
              field[last.coord].state = last.new_state

----------------------------------------------------------------------------
(* Defined and undefined directions *)

\* the direction of coord is the unit vector toward the cell to
PointsAt(coord, to) ==
    field[coord].debug_direction = Vec2Normalize(OffsetVec(coord, to))

\* C29: after a solve a passable cell that is not the destination has the NaN
\* direction if and only if its distance is the f32::MAX sentinel; a cell with a
\* finite non-zero distance has a defined direction, and points exactly at the
\* destination when the destination is among its reachable neighbours.
C29_NaNIffUnreachable ==
    FullSolveThisFrame =>
        \A coord \in Coords \ {hist.frame_dist} : Passable(field, coord) =>
            /\ field[coord].debug_direction.nan <=>
                   field[coord].debug_distance = F32_MAX
            /\ (/\ 0 < field[coord].debug_distance
                /\ field[coord].debug_distance < F32_MAX
                /\ hist.frame_dist \in ReachableSet(field, coord))
                   => PointsAt(coord, hist.frame_dist)

----------------------------------------------------------------------------
(* The colliders of the obstacles *)

\* C30: after any sequence of obstacle edits a cell carries a fixed collider if
\* and only if it is impassable now, and never more than one: a cell turned
\* back to a passable state carries none.
C30_ColliderIffImpassable ==
    \A coord \in Coords :
        /\ colliders[coord] >= 1 <=> ~Passable(field, coord)
        /\ colliders[coord] <= 1

----------------------------------------------------------------------------
(* The steering consumer *)

\* what the consumer does with a unit in the cell coord, whatever the unit's
\* heading: distance 0 gives the zero force, a NaN direction leaves the force
\* alone, any other direction gives a force that is not NaN
SteersSafely(coord) ==
    \A heading \in Headings :
        \E after \in {SteerForce(field[coord], heading, force)} :
            IF field[coord].debug_distance = 0 THEN after = Vec2(0, 0)
            ELSE IF field[coord].debug_direction.nan THEN after = force
            ELSE /\ ~after.nan
                 /\ after = Vec2Scale(field[coord].debug_direction, FORCE_GAIN)

\* C31: the steering consumer never applies an undefined direction: in a cell of
\* distance 0 it sets the force to zero whatever the direction is, in any other
\* cell it sets the force from the direction only when the direction is not
\* NaN; the force of the unit is NaN in no reachable state, the states before
\* the first solve included.
C31_ForceNeverNaN ==
    /\ ~force.nan
    /\ \A coord \in Coords : SteersSafely(coord)

\* the consumer has run in a frame and left a force other than zero, while some
\* cell the unit can be in has a NaN direction and a distance that is not 0
C31_Witness ==
    /\ "debug_unit_velocity" \in done
    /\ force # Vec2(0, 0)
    /\ \E coord \in Coords :
          /\ field[coord].debug_direction.nan
          /\ field[coord].debug_distance # 0

----------------------------------------------------------------------------
(* The field of a session *)

\* the cell is as init leaves it: Empty, no solved distance, no direction
Untouched(cell) ==
    /\ cell.state = "Empty"
    /\ cell.debug_distance = F32_NAN
    /\ cell.debug_direction.nan

\* C32: when a session ends the field is emptied and the active destination is
\* reset to none; in the session started after it every cell is Empty with no
\* solved distance and no direction and no destination is active, whatever was
\* requested in the session before.
C32_FieldIsTransient ==
    /\ global_state = "Menu" => (field = <<>> /\ target = NoTarget)
    /\ (global_state = "InGame" /\ hist.restarted) =>
          /\ DOMAIN field = Coords
          /\ \A coord \in Coords : Untouched(field[coord])
          /\ target = NoTarget

\* a session in which an obstacle was set and a destination solved has ended,
\* and the systems of a frame of the next session have run
C32_Witness ==
    /\ global_state = "InGame"
    /\ hist.restarted
    /\ done = Systems
    /\ hist.dist_for # NoTarget
    /\ \E coord \in Coords : colliders[coord] >= 1

============================================================================
